---- MODULE Spec2Model ----
(***************************************************************************)
(* distcron: a fleet of processes, each running Schedule.Run, sharing one  *)
(* Redis store.  Every process holds the same job list; at each firing the *)
(* cron engine starts the guarded wrapper built by Schedule.lock in a new  *)
(* goroutine.  The wrapper takes a redsync mutex "GLOBAL-<name>", reads    *)
(* the marker key <name>, writes it, unlocks, runs the job body, locks     *)
(* again, deletes the marker and unlocks.                                  *)
(*                                                                         *)
(* The redsync mutex is a store key holding a random value with an expiry; *)
(* Unlock deletes the key only when it still holds the value of the last   *)
(* successful Lock of the same Mutex object.  The Mutex object is built    *)
(* once per job in Schedule.lock, outside the returned closure, so all     *)
(* firings of a job in one process share it.                               *)
(***************************************************************************)
EXTENDS Naturals, Sequences, FiniteSets

\* Number of processes of the fleet sharing the store.
NumProcs == 2

\* Total number of firings (wrapper activations) started by the timer
\* engines of the whole fleet.
MaxFirings == 2

Procs == 1..NumProcs

\* Job names a schedule may register.  AddJob takes any string.
Names == {"a", "b", "GLOBAL-a"}

\* mutexName = fmt.Sprintf("GLOBAL-%s", name): the store key of the job's
\* redsync mutex.  The marker key is the name itself.
MutexName(name) == "GLOBAL-" \o name

\* The keys of the one store the fleet shares.
Keys == Names \cup { MutexName(n) : n \in Names }

\* The value SET <name> 1 writes, a store value like the mutex values.
MarkerVal == << 1 >>

\* Time specs: one the cron parser accepts, one it rejects.
GoodSpec == "* * * * *"
BadSpec == "not a spec"

\* cron's parser, seen from AddFunc: nil error or a parse error.
ParseOk(spec) == spec = GoodSpec

Job(spec, name) == [Spec |-> spec, Name |-> name]

\* The job lists an application may have built with AddJob before Run.
JobLists ==
  { << Job(GoodSpec, "a") >>,
    << Job(GoodSpec, "a"), Job(BadSpec, "b") >>,
    << Job(BadSpec, "b"), Job(GoodSpec, "a") >> }

\* Job lists with two well-formed jobs of different names.
TwoJobLists ==
  { << Job(GoodSpec, "a"), Job(GoodSpec, "b") >>,
    << Job(GoodSpec, "a"), Job(GoodSpec, "GLOBAL-a") >> }

\* The value redsync's genValue draws for one Lock call: unique per call
\* (process, firing slot, first or second Lock of the activation).
Val(p, k, ph) == << p, k, ph >>

\* The key is absent from the store (GET returns nil) / Mutex.value is
\* still "".
NoVal == << >>

VARIABLES
  jobs,          \* s.jobs, the same in every process of the fleet
  mainPc,        \* position of the goroutine executing Run, per process
  sigPc,         \* position of the signal goroutine, per process
  pinged,        \* outcome of the startup PING: "no", "ok", "fail"
  result,        \* what Run returned: "none", "nil", "err"
  regIdx,        \* jobs already passed to AddFunc
  entries,       \* names registered with the cron engine
  cronRunning,   \* cron's c.running
  gracefulStop,  \* the channel gracefulStop (capacity 1) holds a signal
  runningClosed, \* the running channel is closed
  act,           \* per process, the wrapper activations started so far
  store,         \* the store: value of every key, NoVal if absent
  mutexValue     \* per process and job: Mutex.value of the shared Mutex

vars == << jobs, mainPc, sigPc, pinged, result, regIdx, entries, cronRunning,
           gracefulStop, runningClosed, act, store, mutexValue >>

\* GET <name> returns a non-nil reply: the marker of job n is present.
marker == [n \in Names |-> store[n] # NoVal]

\* What the key of job n's mutex holds.
lockKey == [n \in Names |-> store[MutexName(n)]]

runVars == << mainPc, sigPc, pinged, result, regIdx, entries, cronRunning,
              gracefulStop, runningClosed >>

Init ==
  /\ jobs \in JobLists
  /\ mainPc = [p \in Procs |-> "ping"]
  /\ sigPc = [p \in Procs |-> "none"]
  /\ pinged = [p \in Procs |-> "no"]
  /\ result = [p \in Procs |-> "none"]
  /\ regIdx = [p \in Procs |-> 0]
  /\ entries = [p \in Procs |-> << >>]
  /\ cronRunning = [p \in Procs |-> FALSE]
  /\ gracefulStop = [p \in Procs |-> FALSE]
  /\ runningClosed = [p \in Procs |-> FALSE]
  /\ act = [p \in Procs |-> << >>]
  /\ store = [key \in Keys |-> NoVal]
  /\ mutexValue = [p \in Procs |-> [n \in Names |-> NoVal]]

------------------------------------------------------------------------------
(* Schedule.Run                                                            *)

\* Jobs of process p that the cron engine has started and that have not
\* returned: what cron's jobWaiter counts.
InFlight(p) == { k \in 1..Len(act[p]) : act[p][k].pc # "done" }

\* redisPool.Get().Do("PING") answers: Run goes on to start the goroutine.
PingOk(p) ==
  /\ mainPc[p] = "ping"
  /\ pinged' = [pinged EXCEPT ![p] = "ok"]
  /\ mainPc' = [mainPc EXCEPT ![p] = "go"]
  /\ UNCHANGED << jobs, sigPc, result, regIdx, entries, cronRunning,
                  gracefulStop, runningClosed, act, store, mutexValue >>

\* A failed PING that Run does not act upon.
PingFailIgnored(p) ==
  /\ mainPc[p] = "ping"
  /\ pinged' = [pinged EXCEPT ![p] = "fail"]
  /\ mainPc' = [mainPc EXCEPT ![p] = "go"]
  /\ UNCHANGED << jobs, sigPc, result, regIdx, entries, cronRunning,
                  gracefulStop, runningClosed, act, store, mutexValue >>

\* PING fails: Run returns the error.
PingFail(p) ==
  /\ mainPc[p] = "ping"
  /\ pinged' = [pinged EXCEPT ![p] = "fail"]
  /\ mainPc' = [mainPc EXCEPT ![p] = "returned"]
  /\ result' = [result EXCEPT ![p] = "err"]
  /\ UNCHANGED << jobs, sigPc, regIdx, entries, cronRunning, gracefulStop,
                  runningClosed, act, store, mutexValue >>

\* go func() { ... }(): the signal goroutine exists, nothing installed yet.
GoListener(p) ==
  /\ mainPc[p] = "go"
  /\ mainPc' = [mainPc EXCEPT ![p] = "register"]
  /\ sigPc' = [sigPc EXCEPT ![p] = "start"]
  /\ UNCHANGED << jobs, pinged, result, regIdx, entries, cronRunning,
                  gracefulStop, runningClosed, act, store, mutexValue >>

\* signal.Notify for SIGTERM and SIGINT; the goroutine then blocks on the
\* channel.
Notify(p) ==
  /\ sigPc[p] = "start"
  /\ sigPc' = [sigPc EXCEPT ![p] = "listening"]
  /\ UNCHANGED << jobs, mainPc, pinged, result, regIdx, entries, cronRunning,
                  gracefulStop, runningClosed, act, store, mutexValue >>

\* The operating system delivers SIGINT or SIGTERM once Notify is in place:
\* the runtime puts it in gracefulStop, or drops it when the buffer is full.
Signal(p) ==
  /\ sigPc[p] \in {"listening", "stop", "drain", "exit"}
  /\ gracefulStop' = [gracefulStop EXCEPT ![p] = TRUE]
  /\ UNCHANGED << jobs, mainPc, sigPc, pinged, result, regIdx, entries,
                  cronRunning, runningClosed, act, store,
                  mutexValue >>

\* A listener that keeps receiving: a further signal ends the drain at once.
RecvSignalAgain(p) ==
  /\ gracefulStop[p]
  /\ gracefulStop' = [gracefulStop EXCEPT ![p] = FALSE]
  /\ \/ /\ sigPc[p] = "listening"
        /\ sigPc' = [sigPc EXCEPT ![p] = "stop"]
        /\ UNCHANGED runningClosed
     \/ /\ sigPc[p] = "drain"
        /\ sigPc' = [sigPc EXCEPT ![p] = "exit"]
        /\ runningClosed' = [runningClosed EXCEPT ![p] = TRUE]
  /\ UNCHANGED << jobs, mainPc, pinged, result, regIdx, entries, cronRunning,
                  act, store, mutexValue >>

\* <-gracefulStop
RecvSignal(p) ==
  /\ sigPc[p] = "listening"
  /\ gracefulStop[p]
  /\ gracefulStop' = [gracefulStop EXCEPT ![p] = FALSE]
  /\ sigPc' = [sigPc EXCEPT ![p] = "stop"]
  /\ UNCHANGED << jobs, mainPc, pinged, result, regIdx, entries, cronRunning,
                  runningClosed, act, store, mutexValue >>

\* An AddFunc error that Run skips over, going on with the next job.
AddFuncSkipBad(p) ==
  /\ mainPc[p] = "register"
  /\ regIdx[p] < Len(jobs)
  /\ LET job == jobs[regIdx[p] + 1] IN
       /\ regIdx' = [regIdx EXCEPT ![p] = @ + 1]
       /\ entries' = [entries EXCEPT
                        ![p] = IF ParseOk(job.Spec) THEN Append(@, job.Name)
                               ELSE @]
  /\ UNCHANGED << jobs, mainPc, sigPc, pinged, result, cronRunning,
                  gracefulStop, runningClosed, act, store, mutexValue >>

\* One turn of the registration loop: c.AddFunc(job.Spec, s.lock(...)).
\* A spec the parser rejects makes Run return the error at once.
AddFunc(p) ==
  /\ mainPc[p] = "register"
  /\ regIdx[p] < Len(jobs)
  /\ LET job == jobs[regIdx[p] + 1] IN
       IF ParseOk(job.Spec)
         THEN /\ regIdx' = [regIdx EXCEPT ![p] = @ + 1]
              /\ entries' = [entries EXCEPT ![p] = Append(@, job.Name)]
              /\ UNCHANGED << mainPc, result >>
         ELSE /\ mainPc' = [mainPc EXCEPT ![p] = "returned"]
              /\ result' = [result EXCEPT ![p] = "err"]
              /\ UNCHANGED << regIdx, entries >>
  /\ UNCHANGED << jobs, sigPc, pinged, cronRunning, gracefulStop, runningClosed,
                  act, store, mutexValue >>

\* c.Run(): the loop is over; cron sets c.running and enters its run loop.
CronRun(p) ==
  /\ mainPc[p] = "register"
  /\ regIdx[p] = Len(jobs)
  /\ cronRunning' = [cronRunning EXCEPT ![p] = TRUE]
  /\ mainPc' = [mainPc EXCEPT ![p] = "loop"]
  /\ UNCHANGED << jobs, sigPc, pinged, result, regIdx, entries, gracefulStop,
                  runningClosed, act, store, mutexValue >>

\* c.Stop(): with c.running set it hands a stop to the run loop (an
\* unbuffered send the loop must receive), which makes c.Run() return; with
\* c.running unset it sends nothing.  Either way it returns the context.
CronStop(p) ==
  /\ sigPc[p] = "stop"
  /\ IF cronRunning[p]
       THEN /\ mainPc[p] = "loop"
            /\ cronRunning' = [cronRunning EXCEPT ![p] = FALSE]
            /\ mainPc' = [mainPc EXCEPT ![p] = "wait"]
       ELSE UNCHANGED << cronRunning, mainPc >>
  /\ sigPc' = [sigPc EXCEPT ![p] = "drain"]
  /\ UNCHANGED << jobs, pinged, result, regIdx, entries, gracefulStop,
                  runningClosed, act, store, mutexValue >>

\* A drain that does not wait for the started jobs.
DrainNoWait(p) ==
  /\ sigPc[p] = "drain"
  /\ runningClosed' = [runningClosed EXCEPT ![p] = TRUE]
  /\ sigPc' = [sigPc EXCEPT ![p] = "exit"]
  /\ UNCHANGED << jobs, mainPc, pinged, result, regIdx, entries, cronRunning,
                  gracefulStop, act, store, mutexValue >>

\* <-c.Stop().Done() then close(running): the context is done once every
\* started job has returned.
Drain(p) ==
  /\ sigPc[p] = "drain"
  /\ InFlight(p) = {}
  /\ runningClosed' = [runningClosed EXCEPT ![p] = TRUE]
  /\ sigPc' = [sigPc EXCEPT ![p] = "exit"]
  /\ UNCHANGED << jobs, mainPc, pinged, result, regIdx, entries, cronRunning,
                  gracefulStop, act, store, mutexValue >>

\* <-running, then return nil.
ReturnNil(p) ==
  /\ mainPc[p] = "wait"
  /\ runningClosed[p]
  /\ mainPc' = [mainPc EXCEPT ![p] = "returned"]
  /\ result' = [result EXCEPT ![p] = "nil"]
  /\ UNCHANGED << jobs, sigPc, pinged, regIdx, entries, cronRunning,
                  gracefulStop, runningClosed, act, store, mutexValue >>

------------------------------------------------------------------------------
(* The wrapper returned by Schedule.lock, one activation per firing        *)

\* Firings started so far in the whole fleet.
TotalFired ==
  LET RECURSIVE S(_)
      S(i) == IF i = 0 THEN 0 ELSE Len(act[i]) + S(i - 1)
  IN  S(NumProcs)

\* A fresh activation of the wrapper for job n, about to call mutex.Lock().
\*   lockOk: the first Lock returned nil      seen: what GET returned
\*   setOk:  SET returned no error            ran:  f() was invoked
\*   clean:  no store or mutex operation of the activation has failed so far
NewAct(n) ==
  [pc |-> "lock1", name |-> n, lockOk |-> FALSE, seen |-> "none",
   setOk |-> FALSE, ran |-> FALSE, clean |-> TRUE]

\* The cron run loop finds an entry due and starts it in its own goroutine
\* (cron.startJob); nothing keeps a firing from starting while an earlier
\* one of the same entry is still running.
Fire(p) ==
  /\ mainPc[p] = "loop"
  /\ TotalFired < MaxFirings
  /\ \E i \in 1..Len(entries[p]) :
       act' = [act EXCEPT ![p] = Append(@, NewAct(entries[p][i]))]
  /\ UNCHANGED << jobs, mainPc, sigPc, pinged, result, regIdx, entries,
                  cronRunning, gracefulStop, runningClosed, store,
                  mutexValue >>

\* Activation k of process p exists and stands at pc, in a process that has
\* not been killed.
At(p, k, pc) ==
  /\ mainPc[p] # "killed"
  /\ k <= Len(act[p])
  /\ act[p][k].pc = pc

\* redsync Mutex.Lock: SET GLOBAL-<name> <fresh value> NX PX <expiry>
\* succeeded within the tries; the Mutex object remembers the value.
Acquire(p, k, ph) ==
  LET n == act[p][k].name IN
  /\ store[MutexName(n)] = NoVal
  /\ store' = [store EXCEPT ![MutexName(n)] = Val(p, k, ph)]
  /\ mutexValue' = [mutexValue EXCEPT ![p][n] = Val(p, k, ph)]

\* redsync Mutex.Unlock with the store answering: the release script deletes
\* the key only if it holds Mutex.value; the result says whether it did.
Released(p, n) == lockKey[n] # NoVal /\ lockKey[n] = mutexValue[p][n]

\* mutex.Lock() returns nil.
Lock1Ok(p, k) ==
  /\ At(p, k, "lock1")
  /\ Acquire(p, k, 1)
  /\ act' = [act EXCEPT ![p][k].pc = "get", ![p][k].lockOk = TRUE]
  /\ UNCHANGED << jobs, runVars >>

\* A failed mutex.Lock() that takes the whole process down: Run returns the
\* error.
Lock1FailFatal(p, k) ==
  /\ At(p, k, "lock1")
  /\ act' = [act EXCEPT ![p][k].pc = "done", ![p][k].clean = FALSE]
  /\ mainPc' = [mainPc EXCEPT ![p] = "returned"]
  /\ result' = [result EXCEPT ![p] = "err"]
  /\ UNCHANGED << jobs, sigPc, pinged, regIdx, entries, cronRunning,
                  gracefulStop, runningClosed, store, mutexValue >>

\* mutex.Lock() returns an error (the key stayed taken through all tries,
\* or the store did not answer): "could not obtain lock", return.
Lock1Fail(p, k) ==
  /\ At(p, k, "lock1")
  /\ act' = [act EXCEPT ![p][k].pc = "done", ![p][k].clean = FALSE]
  /\ UNCHANGED << jobs, runVars, store, mutexValue >>

\* A GET that finds the marker and goes on to SET all the same.
GetOkIgnorePresent(p, k) ==
  /\ At(p, k, "get")
  /\ act' = [act EXCEPT
               ![p][k].seen = IF marker[act[p][k].name]
                                THEN "present" ELSE "absent",
               ![p][k].pc = "set"]
  /\ UNCHANGED << jobs, runVars, store, mutexValue >>

\* A GET that finds the marker and calls mutex.Unlock() before returning.
GetOkUnlockOnSkip(p, k) ==
  LET n == act[p][k].name IN
  /\ At(p, k, "get")
  /\ act' = [act EXCEPT
               ![p][k].seen = IF marker[n] THEN "present" ELSE "absent",
               ![p][k].pc = IF marker[n] THEN "done" ELSE "set"]
  /\ store' = IF marker[n] /\ Released(p, n)
                THEN [store EXCEPT ![MutexName(n)] = NoVal]
                ELSE store
  /\ UNCHANGED << jobs, runVars, mutexValue >>

\* GET <name> answers.  key != nil: "wasn't first to take the job", return
\* (without Unlock).  key == nil: go on to SET.
GetOk(p, k) ==
  /\ At(p, k, "get")
  /\ act' = [act EXCEPT
               ![p][k].seen = IF marker[act[p][k].name]
                                THEN "present" ELSE "absent",
               ![p][k].pc = IF marker[act[p][k].name] THEN "done" ELSE "set"]
  /\ UNCHANGED << jobs, runVars, store, mutexValue >>

\* GET returns an error: "could not get unique key", return (without Unlock).
GetFail(p, k) ==
  /\ At(p, k, "get")
  /\ act' = [act EXCEPT ![p][k].seen = "err", ![p][k].pc = "done",
                        ![p][k].clean = FALSE]
  /\ UNCHANGED << jobs, runVars, store, mutexValue >>

\* SET <name> 1 answers: the marker exists.
SetOk(p, k) ==
  /\ At(p, k, "set")
  /\ store' = [store EXCEPT ![act[p][k].name] = MarkerVal]
  /\ act' = [act EXCEPT ![p][k].setOk = TRUE, ![p][k].pc = "unlock1"]
  /\ UNCHANGED << jobs, runVars, mutexValue >>

\* A SET error after which the wrapper carries on to run the job.
SetFailRuns(p, k) ==
  /\ At(p, k, "set")
  /\ act' = [act EXCEPT ![p][k].pc = "unlock1", ![p][k].clean = FALSE]
  /\ UNCHANGED << jobs, runVars, store, mutexValue >>

\* SET returns an error: "could not set job key", return (without Unlock).
SetFail(p, k) ==
  /\ At(p, k, "set")
  /\ act' = [act EXCEPT ![p][k].pc = "done", ![p][k].clean = FALSE]
  /\ UNCHANGED << jobs, runVars, store, mutexValue >>

\* mutex.Unlock() before the job; a false result is only logged.  Then f()
\* is invoked: the activation is in the job body.
Unlock1(p, k) ==
  LET n == act[p][k].name IN
  /\ At(p, k, "unlock1")
  /\ \/ /\ Released(p, n)
        /\ store' = [store EXCEPT ![MutexName(n)] = NoVal]
        /\ act' = [act EXCEPT ![p][k].pc = "body", ![p][k].ran = TRUE]
     \/ /\ UNCHANGED store
        /\ act' = [act EXCEPT ![p][k].pc = "body", ![p][k].ran = TRUE,
                              ![p][k].clean = FALSE]
  /\ UNCHANGED << jobs, runVars, mutexValue >>

\* f() returns.
BodyReturn(p, k) ==
  /\ At(p, k, "body")
  /\ act' = [act EXCEPT ![p][k].pc = "lock2"]
  /\ UNCHANGED << jobs, runVars, store, mutexValue >>

\* The second mutex.Lock() returns nil.
Lock2Ok(p, k) ==
  /\ At(p, k, "lock2")
  /\ Acquire(p, k, 2)
  /\ act' = [act EXCEPT ![p][k].pc = "del"]
  /\ UNCHANGED << jobs, runVars >>

\* The second mutex.Lock() returns an error: "lock not obtained" is logged
\* and the wrapper goes on to DEL.
Lock2Fail(p, k) ==
  /\ At(p, k, "lock2")
  /\ act' = [act EXCEPT ![p][k].pc = "del", ![p][k].clean = FALSE]
  /\ UNCHANGED << jobs, runVars, store, mutexValue >>

\* DEL <name> answers: the marker is gone.
DelOk(p, k) ==
  /\ At(p, k, "del")
  /\ store' = [store EXCEPT ![act[p][k].name] = NoVal]
  /\ act' = [act EXCEPT ![p][k].pc = "unlock2"]
  /\ UNCHANGED << jobs, runVars, mutexValue >>

\* DEL returns an error: "could not remove job lock" is logged.
DelFail(p, k) ==
  /\ At(p, k, "del")
  /\ act' = [act EXCEPT ![p][k].pc = "unlock2", ![p][k].clean = FALSE]
  /\ UNCHANGED << jobs, runVars, store, mutexValue >>

\* The final mutex.Unlock(); the wrapper returns.
Unlock2(p, k) ==
  LET n == act[p][k].name IN
  /\ At(p, k, "unlock2")
  /\ \/ /\ Released(p, n)
        /\ store' = [store EXCEPT ![MutexName(n)] = NoVal]
        /\ act' = [act EXCEPT ![p][k].pc = "done"]
     \/ /\ UNCHANGED store
        /\ act' = [act EXCEPT ![p][k].pc = "done", ![p][k].clean = FALSE]
  /\ UNCHANGED << jobs, runVars, mutexValue >>

\* The store drops a key written by Mutex.Lock when its expiry (redsync's
\* default 8 s) has passed, whoever wrote it and whatever that process is
\* doing.  A key written by SET <name> 1 carries no expiry.
Expire(key) ==
  /\ store[key] \notin {NoVal, MarkerVal}
  /\ store' = [store EXCEPT ![key] = NoVal]
  /\ UNCHANGED << jobs, runVars, act, mutexValue >>

------------------------------------------------------------------------------

RunStep(p) ==
  \/ PingOk(p)
  \/ PingFail(p)
  \/ GoListener(p)
  \/ Notify(p)
  \/ RecvSignal(p)
  \/ AddFunc(p)
  \/ CronRun(p)
  \/ CronStop(p)
  \/ Drain(p)
  \/ ReturnNil(p)
  \/ Fire(p)

GuardStep(p, k) ==
  \/ Lock1Ok(p, k)
  \/ Lock1Fail(p, k)
  \/ GetOk(p, k)
  \/ GetFail(p, k)
  \/ SetOk(p, k)
  \/ SetFail(p, k)
  \/ Unlock1(p, k)
  \/ BodyReturn(p, k)
  \/ Lock2Ok(p, k)
  \/ Lock2Fail(p, k)
  \/ DelOk(p, k)
  \/ DelFail(p, k)
  \/ Unlock2(p, k)

Next ==
  \/ \E p \in Procs : RunStep(p)
  \/ \E p \in Procs : \E k \in 1..MaxFirings : GuardStep(p, k)
  \/ \E p \in Procs : Signal(p)
  \/ \E key \in Keys : Expire(key)

Spec == Init /\ [][Next]_vars

\* The steps of the goroutine executing Run that need nothing but the Go
\* scheduler (the timer decides about Fire; the stop hand-over is a step of
\* the signal goroutine).
MainStep(p) ==
  \/ PingOk(p)
  \/ PingFail(p)
  \/ GoListener(p)
  \/ AddFunc(p)
  \/ CronRun(p)
  \/ ReturnNil(p)

\* The steps of the signal goroutine.
SigStep(p) ==
  \/ Notify(p)
  \/ RecvSignal(p)
  \/ CronStop(p)
  \/ Drain(p)

\* Every goroutine that can take a step is scheduled in the end; every store
\* and mutex call, and every job body, returns.  Signals and timer firings
\* may or may not happen.
Fairness ==
  \A p \in Procs :
    /\ WF_vars(MainStep(p))
    /\ WF_vars(SigStep(p))
    /\ \A k \in 1..MaxFirings : WF_vars(GuardStep(p, k))

FairSpec == Init /\ [][Next]_vars /\ Fairness

\* Activation k of process p has written the marker (SET answered) and has
\* not yet got an answer to its DEL.
InWindow(p, k) ==
  /\ k <= Len(act[p])
  /\ act[p][k].setOk
  /\ act[p][k].pc \in {"unlock1", "body", "lock2", "del"}

\* The process dies (a crash, or the deployment's kill while Run drains)
\* with an activation between its SET and its DEL: all its goroutines stop
\* where they are; the store keeps what they wrote.
Crash(p) ==
  /\ mainPc[p] \in {"loop", "wait"}
  /\ \E k \in 1..MaxFirings : InWindow(p, k)
  /\ mainPc' = [mainPc EXCEPT ![p] = "killed"]
  /\ sigPc' = [sigPc EXCEPT ![p] = "killed"]
  /\ UNCHANGED << jobs, pinged, result, regIdx, entries, cronRunning,
                  gracefulStop, runningClosed, act, store, mutexValue >>

\* The steps of Run up to and including the timer's firings: what a process
\* does while no termination signal arrives.
StartStep(p) ==
  \/ PingOk(p)
  \/ PingFail(p)
  \/ GoListener(p)
  \/ Notify(p)
  \/ AddFunc(p)
  \/ CronRun(p)
  \/ Fire(p)

\* The fleet while no termination signal arrives.
QuietNext ==
  \/ \E p \in Procs : StartStep(p)
  \/ \E p \in Procs : \E k \in 1..MaxFirings : GuardStep(p, k)
  \/ \E key \in Keys : Expire(key)

\* The state after construction of a fleet whose schedule holds two jobs.
TwoJobInit ==
  /\ jobs \in TwoJobLists
  /\ mainPc = [p \in Procs |-> "ping"]
  /\ sigPc = [p \in Procs |-> "none"]
  /\ pinged = [p \in Procs |-> "no"]
  /\ result = [p \in Procs |-> "none"]
  /\ regIdx = [p \in Procs |-> 0]
  /\ entries = [p \in Procs |-> << >>]
  /\ cronRunning = [p \in Procs |-> FALSE]
  /\ gracefulStop = [p \in Procs |-> FALSE]
  /\ runningClosed = [p \in Procs |-> FALSE]
  /\ act = [p \in Procs |-> << >>]
  /\ store = [key \in Keys |-> NoVal]
  /\ mutexValue = [p \in Procs |-> [n \in Names |-> NoVal]]

\* A fleet with two jobs while no termination signal arrives.
TwoJobSpec == TwoJobInit /\ [][QuietNext]_vars

CrashNext ==
  \/ QuietNext
  \/ \E p \in Procs : Crash(p)

\* The fleet with process deaths and no termination signal.
CrashSpec == Init /\ [][CrashNext]_vars

------------------------------------------------------------------------------
(* Vocabulary of the properties                                            *)

\* All activations started so far, as << process, slot >>.
Acts == { pk \in Procs \X (1..MaxFirings) : pk[2] <= Len(act[pk[1]]) }

A(pk) == act[pk[1]][pk[2]]

\* Every process holds the same schedule, so the f-th activation of a job in
\* a process is that process's activation for the f-th scheduled firing.
FiringNo(pk) ==
  Cardinality({ j \in 1..pk[2] : act[pk[1]][j].name = A(pk).name })

SameFiring(x, y) ==
  /\ A(x).name = A(y).name
  /\ FiringNo(x) = FiringNo(y)

Finished(pk) == A(pk).pc = "done"

\* The activation went through all nine steps and none of them failed.
FullCycle(pk) == Finished(pk) /\ A(pk).ran /\ A(pk).clean

HasBadSpec == \E i \in 1..Len(jobs) : ~ParseOk(jobs[i].Spec)

------------------------------------------------------------------------------
(* Claims                                                                  *)

\* C1: of the activations the processes of the fleet start for one scheduled
\* firing of a job, at most one invokes the job body.
C1_AtMostOnePerFiring ==
  \A x \in Acts : \A y \in Acts :
    (x[1] # y[1] /\ SameFiring(x, y)) => ~(A(x).ran /\ A(y).ran)

\* C2: two executions of the body of one job are never in progress at the
\* same time, in two processes or in one.
C2_NoOverlap ==
  \A x \in Acts : \A y \in Acts :
    (x # y /\ A(x).name = A(y).name) =>
      ~(A(x).pc = "body" /\ A(y).pc = "body")

\* C3: an activation whose GET found the marker present has returned: it
\* never invokes the body, never issues SET and never reaches DEL.
C3_PresentSkips ==
  \A x \in Acts :
    A(x).seen = "present" =>
      /\ A(x).pc = "done"
      /\ ~A(x).ran
      /\ ~A(x).setOk

\* C3 witness: an activation has skipped on a marker another one wrote, and
\* the marker is still there.
C3_Witness ==
  \E x \in Acts :
    /\ A(x).seen = "present"
    /\ A(x).pc = "done"
    /\ marker[A(x).name]

\* C4: the body is invoked only in an activation whose acquire succeeded,
\* whose GET answered "absent" and whose SET succeeded.
C4_FailClosed ==
  \A x \in Acts :
    A(x).ran => (A(x).lockOk /\ A(x).seen = "absent" /\ A(x).setOk)

\* C4 witness: one activation has returned without the body after a failed
\* acquire, another after a successful acquire and GET and a failed SET.
C4_Witness ==
  \E x \in Acts : \E z \in Acts :
    /\ Finished(x) /\ ~A(x).ran /\ ~A(x).lockOk
    /\ Finished(z) /\ ~A(z).ran /\ A(z).lockOk /\ A(z).seen = "absent"
    /\ ~A(z).setOk

\* C5: when only the first firing has been started (so the marker was absent
\* when it began), every process has finished its activation for it and no
\* store or mutex operation failed, the body ran exactly once.
C5_ExactlyOnce ==
  ( /\ \A p \in Procs : Len(act[p]) = 1
    /\ \A x \in Acts : Finished(x) /\ A(x).clean )
  => Cardinality({ x \in Acts : A(x).ran }) = 1

\* No activation of the job of pk other than pk itself is in progress.
NoOtherInProgress(pk) ==
  \A y \in Acts : (y # pk /\ A(y).name = A(pk).name) => Finished(y)

\* C6: when an activation returns after nine successful steps and no other
\* activation of the job is in progress, the marker is absent and the lock
\* key is absent.
C6_RestingState ==
  [][ \A p \in Procs : \A k \in 1..Len(act[p]) :
        ( /\ act[p][k].pc = "unlock2"
          /\ FullCycle(<< p, k >>)'
          /\ NoOtherInProgress(<< p, k >>)' )
        => ( /\ ~marker'[act[p][k].name]
             /\ lockKey'[act[p][k].name] = NoVal ) ]_vars

\* C7: Run has not returned while an activation of its process is in flight.
C7_DrainSafety ==
  \A p \in Procs : mainPc[p] = "returned" => InFlight(p) = {}

\* C7 witness: the signal goroutine is draining and Run is held back while
\* an activation of the process is in its body or in its cleanup.
C7_Witness ==
  \E x \in Acts :
    /\ mainPc[x[1]] = "wait"
    /\ sigPc[x[1]] = "drain"
    /\ A(x).pc \in {"body", "lock2", "del", "unlock2"}

\* C8: with a well-formed job list, a termination signal delivered once the
\* listener is installed leads to Run returning nil.
C8_ShutdownLiveness ==
  \A p \in Procs :
    (~HasBadSpec /\ gracefulStop[p]) ~> (result[p] = "nil")

\* C9: after a failed PING, Run has returned an error, nothing is registered
\* and no wrapper was ever invoked (so no key was touched by the process).
C9_PingFailStops ==
  \A p \in Procs :
    pinged[p] = "fail" =>
      /\ mainPc[p] = "returned"
      /\ result[p] = "err"
      /\ entries[p] = << >>
      /\ act[p] = << >>
      /\ ~cronRunning[p]

\* C9 witness: one process failed its PING while another one runs a job.
C9_Witness ==
  \E p \in Procs : \E x \in Acts :
    /\ pinged[p] = "fail"
    /\ result[p] = "err"
    /\ x[1] # p
    /\ A(x).pc = "body"

\* C10: with a malformed spec in the job list, Run never starts the cron
\* engine, never invokes a wrapper, and returns nothing but an error.
C10_BadSpecStops ==
  HasBadSpec =>
    \A p \in Procs :
      /\ mainPc[p] \notin {"loop", "wait"}
      /\ ~cronRunning[p]
      /\ act[p] = << >>
      /\ result[p] # "nil"
      /\ (mainPc[p] = "returned" => result[p] = "err")

\* C10 witness: Run returned an error for a malformed spec that came after a
\* valid job had been registered.
C10_Witness ==
  \E p \in Procs :
    /\ HasBadSpec
    /\ pinged[p] = "ok"
    /\ result[p] = "err"
    /\ Len(entries[p]) = 1

\* The step in which activation k of process p returns because its GET found
\* the marker.
SkipStep(p, k) ==
  /\ At(p, k, "get")
  /\ act'[p][k].pc = "done"
  /\ act'[p][k].seen = "present"

\* C11 as stated: when an activation returns because it found the marker,
\* the lock key of the job no longer holds the value this activation wrote.
C11_SkipReleases ==
  [][ \A p \in Procs : \A k \in 1..MaxFirings :
        SkipStep(p, k)
          => lockKey'[act[p][k].name] # Val(p, k, 1) ]_vars

\* C11: an activation that returns because it found the marker issues no
\* Unlock: the step leaves every key of the store as it was, the lock key it
\* wrote included.
C11_SkipKeepsLock ==
  [][ \A p \in Procs : \A k \in 1..MaxFirings :
        SkipStep(p, k) => store' = store ]_vars

\* C11 witness: an activation has returned on a present marker and the lock
\* key still holds the value it wrote, while the activation of another
\* process that wrote the marker is at its second Lock.
C11_Witness ==
  \E x \in Acts : \E y \in Acts :
    /\ A(x).seen = "present"
    /\ Finished(x)
    /\ lockKey[A(x).name] = Val(x[1], x[2], 1)
    /\ y[1] # x[1]
    /\ A(y).name = A(x).name
    /\ A(y).pc = "lock2"

\* C12: while an activation is in the job body, the marker of its job is
\* present and the lock key does not hold the value the activation wrote.
C12_BodyWindow ==
  \A x \in Acts :
    A(x).pc = "body" =>
      /\ marker[A(x).name]
      /\ lockKey[A(x).name] # Val(x[1], x[2], 1)

\* The step in which the DEL of activation k of process p removes the marker
\* of its job.
DelStep(p, k) ==
  /\ At(p, k, "del")
  /\ act'[p][k].pc = "unlock2"
  /\ marker[act[p][k].name]
  /\ ~marker'[act[p][k].name]

\* C13: the marker of a job is removed only by an activation that holds the
\* mutex of the job at that moment: the lock key holds the value its second
\* Lock wrote.  (After a failed second Lock there is no such value, so the
\* activation must not remove the marker.)
C13_DelUnderLock ==
  [][ \A p \in Procs : \A k \in 1..MaxFirings :
        DelStep(p, k) => lockKey[act[p][k].name] = Val(p, k, 2) ]_vars

\* C14: once a process has died with an activation between its SET and its
\* DEL and the marker of the job in the store, no step removes that marker
\* (so every GET of the job answered from then on finds it present).
C14_LeakedMarkerStays ==
  [][ \A x \in Acts :
        ( /\ mainPc[x[1]] = "killed"
          /\ InWindow(x[1], x[2])
          /\ marker[A(x).name] )
        => marker'[A(x).name] ]_vars

\* A step of one of the activations of process p.
WrapperStep(p) == \E k \in 1..Len(act[p]) : act'[p][k] # act[p][k]

\* The cron engine of process p has been started by Run.
Started(p) == mainPc[p] \in {"loop", "wait"}

\* C15: no step of an activation, failed or not, changes where Run stands,
\* what it returns, the registered entries or the state of the cron engine
\* or of the signal goroutine; and once the engine has been started Run
\* returns nothing but nil.
C15_FailuresContained ==
  [][ \A p \in Procs :
        /\ WrapperStep(p)
             => /\ mainPc'[p] = mainPc[p]
                /\ result'[p] = result[p]
                /\ entries'[p] = entries[p]
                /\ cronRunning'[p] = cronRunning[p]
                /\ sigPc'[p] = sigPc[p]
        /\ Started(p) => result'[p] \in {"none", "nil"} ]_vars

\* C15 witness: in a process whose engine still runs, one activation has
\* returned after a failed operation and a later one is in the body.
C15_Witness ==
  \E p \in Procs :
    /\ mainPc[p] = "loop"
    /\ Len(act[p]) = 2
    /\ Finished(<< p, 1 >>)
    /\ ~act[p][1].clean
    /\ ~act[p][1].ran
    /\ act[p][2].pc = "body"

\* The step in which an Unlock of activation k of process p removes the
\* lock key of its job.
UnlockStep(p, k) ==
  /\ At(p, k, "unlock1") \/ At(p, k, "unlock2")
  /\ act'[p][k].pc # act[p][k].pc
  /\ lockKey[act[p][k].name] # NoVal
  /\ lockKey'[act[p][k].name] = NoVal

\* C16: an Unlock of one activation removes the lock key only when the key
\* holds a value this same activation wrote, never the value of another
\* activation of the job.
C16_UnlockOwn ==
  [][ \A p \in Procs : \A k \in 1..MaxFirings :
        UnlockStep(p, k)
          => lockKey[act[p][k].name] \in {Val(p, k, 1), Val(p, k, 2)} ]_vars

\* The signal goroutine of process p has received its signal.
Stopping(p) == sigPc[p] \in {"stop", "drain", "exit"}

\* C17: once the signal goroutine has received a signal, a further signal
\* only fills the channel: the step changes nothing else, the goroutine
\* never receives it and never goes back to ask cron to stop, the drain
\* still ends only when no activation is in flight, and what Run returned
\* stays.
C17_FurtherSignalIdle ==
  [][ \A p \in Procs :
        Stopping(p) =>
          /\ (~gracefulStop[p] /\ gracefulStop'[p])
               => UNCHANGED << jobs, mainPc, sigPc, pinged, result, regIdx,
                               entries, cronRunning, runningClosed, act,
                               store, mutexValue >>
          /\ gracefulStop[p] => gracefulStop'[p]
          /\ sigPc'[p] \in
               CASE sigPc[p] = "stop" -> {"stop", "drain"}
                 [] sigPc[p] = "drain" -> {"drain", "exit"}
                 [] OTHER -> {"exit"}
          /\ (cronRunning[p] /\ ~cronRunning'[p]) => sigPc[p] = "stop"
          /\ (sigPc[p] = "drain" /\ sigPc'[p] = "exit") => InFlight(p) = {}
          /\ result[p] # "none" => result'[p] = result[p] ]_vars

\* C17 witness: a further signal has arrived while the goroutine is draining
\* and an activation is still in flight; Run is held back.
C17_Witness ==
  \E p \in Procs :
    /\ sigPc[p] = "drain"
    /\ gracefulStop[p]
    /\ mainPc[p] = "wait"
    /\ InFlight(p) # {}

\* The names of the jobs of the schedule.
JobNames == { jobs[i].Name : i \in 1..Len(jobs) }

\* C18: for two jobs of different names registered with the cron engine of
\* a process, the key of the mutex of one is never the marker key of the
\* other.
C18_KeysDisjoint ==
  \A p \in Procs : \A i \in 1..Len(entries[p]) : \A j \in 1..Len(entries[p]) :
    entries[p][i] # entries[p][j]
      => MutexName(entries[p][i]) # entries[p][j]

\* C19: a step of an activation of one job leaves the marker and the lock
\* key of every other job as they were, and an activation finds the marker
\* of its job present only if an activation of that same job wrote it.
C19_JobIsolation ==
  [][ /\ \A p \in Procs : \A k \in 1..Len(act[p]) :
           act'[p][k] # act[p][k] =>
             \A m \in JobNames \ {act[p][k].name} :
               /\ marker'[m] = marker[m]
               /\ lockKey'[m] = lockKey[m]
      /\ \A p \in Procs : \A k \in 1..Len(act[p]) :
           act'[p][k].seen = "present" =>
             \E y \in Acts :
               A(y).name = act[p][k].name /\ A(y).setOk ]_vars

====
